---- MODULE Spec2Model ----
(***************************************************************************)
(* TM1py DimensionService (src/TM1py/Services/DimensionService.py).        *)
(*                                                                         *)
(* The service is a client of a remote server.  The model holds the        *)
(* server's dimensions, and for every caller the position inside the       *)
(* method it runs, the method's locals, and the list of requests it has    *)
(* issued so far.  One action is one request to a collaborator (REST       *)
(* transport, HierarchyService, ProcessService) together with the code     *)
(* that follows it up to the next request.                                 *)
(***************************************************************************)
EXTENDS Integers, Sequences, FiniteSets, TLC

\* ------------------------------------------------------------------ bounds
MaxHier == 2
MaxAttrs == 1

\* ------------------------------------------------------------------ names
\* Names are sequences of characters, so that case and spaces can be told apart.
Leaves == <<"L", "e", "a", "v", "e", "s">>
leaves_spaced == <<" ", "l", "e", "a", "v", "e", "s", " ">>
Region == <<"R", "e", "g", "i", "o", "n">>
Continent == <<"C", "o", "n", "t", "i", "n", "e", "n", "t">>

HierNames == {Leaves, leaves_spaced, Region, Continent}
DimNames == {"Region", "Other"}

UpperToLower == ("L" :> "l") @@ ("R" :> "r") @@ ("C" :> "c") @@ ("N" :> "n")
                @@ ("S" :> "s") @@ ("A" :> "a")

lower(ch) == IF ch \in DOMAIN UpperToLower THEN UpperToLower[ch] ELSE ch

NotSpace(ch) == ch # " "

\* Utils.case_and_space_insensitive_equals: spaces removed, lower-cased, compared.
Normalise(s) ==
    LET t == SelectSeq(s, NotSpace)
    IN  [i \in 1..Len(t) |-> lower(t[i])]

case_and_space_insensitive_equals(a, b) == Normalise(a) = Normalise(b)

\* ------------------------------------------------------------------ objects
TypeTags == << <<"N", "u", "m", "e", "r", "i", "c">>,
               <<"S", "t", "r", "i", "n", "g">>,
               <<"A", "l", "i", "a", "s">> >>

ElementAttribute(k) ==
    [name |-> <<"a", k>>, attribute_type |-> TypeTags[((k - 1) % Len(TypeTags)) + 1]]

ElementAttributes(n) == [k \in 1..n |-> ElementAttribute(k)]

\* A hierarchy names the dimension it belongs to itself (Hierarchy.dimension_name);
\* nothing makes it the name of the Dimension object that holds it.  It has no
\* element attributes or MaxAttrs of them.
Hierarchy ==
    {[name |-> n, dimension_name |-> o, element_attributes |-> ElementAttributes(k)] :
        n \in HierNames, o \in DimNames, k \in {0, MaxAttrs}}

UniqueNames(hs) ==
    \A i, j \in 1..Len(hs) :
        i # j => ~case_and_space_insensitive_equals(hs[i].name, hs[j].name)

HierarchySeqs ==
    {hs \in UNION {[1..k -> Hierarchy] : k \in 0..MaxHier} : UniqueNames(hs)}

Dimension == {[name |-> n, hierarchies |-> hs] : n \in DimNames, hs \in HierarchySeqs}

\* Dimension.hierarchy_names
hierarchy_names(d) == [i \in 1..Len(d.hierarchies) |-> d.hierarchies[i].name]

SeqToSet(s) == {s[i] : i \in 1..Len(s)}

\* ------------------------------------------------------------------ errors
NoError == [cls |-> "none", why |-> "none", at |-> 0]
Faults == {"none", "TM1pyException", "OtherError"}

\* ------------------------------------------------------------------ state
Callers == {1, 2}

VARIABLES
    server,   \* dimension name -> [present, hier]: the server's dimensions
    pc,       \* caller -> position in the method it runs
    op,       \* caller -> the method
    arg,      \* caller -> the dimension passed
    idx,      \* caller -> index of the for loop over the dimension
    todo,     \* caller -> hierarchies_to_be_removed
    remote,   \* caller -> set(self.hierarchies.get_all_names(...))
    found,    \* caller -> result of the last hierarchy existence probe
    caught,   \* caller -> the exception e bound by the except clause
    err,      \* caller -> the exception the method raised (NoError: none)
    ret,      \* caller -> the value the method returned
    log,      \* caller -> the requests issued by the running method
    last      \* caller -> name and hierarchy names of the dimension its previous
              \*           call created, while it is idle or runs get

vars == <<server, pc, op, arg, idx, todo, remote, found, caught, err, ret, log, last>>

NoDimension == [present |-> FALSE, hier |-> {}]
NoArg == [name |-> "", hierarchies |-> <<>>]
NoRet == [name |-> "", hier |-> {}]

\* what the server may hold for one dimension when the service is constructed
ServerDimensions ==
    {NoDimension} \cup
    {[present |-> TRUE, hier |-> SeqToSet(hierarchy_names(d))] : d \in Dimension}

\* the callers before their first call
Idle ==
    /\ pc = [c \in Callers |-> "idle"]
    /\ op = [c \in Callers |-> "none"]
    /\ arg = [c \in Callers |-> NoArg]
    /\ idx = [c \in Callers |-> 0]
    /\ todo = [c \in Callers |-> {}]
    /\ remote = [c \in Callers |-> {}]
    /\ found = [c \in Callers |-> FALSE]
    /\ caught = [c \in Callers |-> NoError]
    /\ err = [c \in Callers |-> NoError]
    /\ ret = [c \in Callers |-> NoRet]
    /\ log = [c \in Callers |-> <<>>]
    /\ last = [c \in Callers |-> NoRet]

\* The service is constructed against a server that holds any dimensions.
Init == server \in [DimNames -> ServerDimensions] /\ Idle

\* The service is constructed against a server without dimensions.
InitEmpty == server = [n \in DimNames |-> NoDimension] /\ Idle

\* ------------------------------------------------------------------ server
\* The server side of the REST API, as far as the service depends on it.
SrvExists(n) == server[n].present

SrvHierMatch(n, h) ==
    {x \in server[n].hier : case_and_space_insensitive_equals(x, h)}

SrvHierExists(n, h) == server[n].present /\ SrvHierMatch(n, h) # {}

\* a request: its kind, the dimension it addresses, its argument and how it ended
Call(kind, dim, a, out) == [call |-> kind, dim |-> dim, arg |-> a, out |-> out]

Failure(f, c) == [cls |-> f, why |-> "fault", at |-> Len(log[c]) + 1]
Refusal(why, c) == [cls |-> "TM1pyException", why |-> why, at |-> Len(log[c]) + 1]

Outcome(e) == IF e = NoError THEN "ok" ELSE e.cls

\* how an existence probe ended: raised e, or answered x
Answer(e, x) == IF e # NoError THEN e.cls ELSE IF x THEN "true" ELSE "false"

\* Dimension.body: the JSON document POSTed for a dimension.
body(d) ==
    [Name |-> d.name,
     Hierarchies |-> [i \in 1..Len(d.hierarchies) |-> [Name |-> d.hierarchies[i].name]]]

\* The hierarchies a dimension may hold once the server has been given `names`:
\* those, and possibly the Leaves hierarchy that the server maintains by itself
\* (the "implicitly maintained 'Leaves' Hierarchy" of update).
Maintained(names) ==
    {names} \cup
    {names \cup {Leaves} : x \in IF \E n \in names : case_and_space_insensitive_equals(n, Leaves)
                                 THEN {} ELSE {1}}

\* POST /api/v1/Dimensions: the states the server may be in once it has created
\* the dimension under the body's name, with the body's hierarchies.
SrvPost(b) ==
    {[server EXCEPT ![b.Name] = [present |-> TRUE, hier |-> hs]] :
        hs \in Maintained({b.Hierarchies[i].Name : i \in 1..Len(b.Hierarchies)})}

\* DELETE /api/v1/Dimensions('name')
SrvDelete(n) == [server EXCEPT ![n] = NoDimension]

\* GET /api/v1/Dimensions('name'), with or without $expand=Hierarchies($expand=*)
SrvGet(n, expand) ==
    [Name |-> n,
     Hierarchies |-> IF expand THEN {[Name |-> x] : x \in server[n].hier} ELSE {}]

\* Dimension.from_json
from_json(j) == [name |-> j.Name, hier |-> {h.Name : h \in j.Hierarchies}]

SrvHierCreate(n, h) ==
    {[server EXCEPT ![n].hier = hs] : hs \in Maintained(server[n].hier \cup {h})}
SrvHierDelete(n, h) == [server EXCEPT ![n].hier = @ \ SrvHierMatch(n, h)]

\* ------------------------------------------------------------------ helpers
Append1(c, entry) == log' = [log EXCEPT ![c] = Append(@, entry)]

Goto(c, p) == pc' = [pc EXCEPT ![c] = p]

\* raise: the method ends with the exception e
Raise(c, e) ==
    /\ pc' = [pc EXCEPT ![c] = "done"]
    /\ err' = [err EXCEPT ![c] = e]

Min(S) == CHOOSE x \in S : \A y \in S : x <= y

\* the first index in S, 0 if S is empty: the next pass of a for loop
First(S) == IF S = {} THEN 0 ELSE Min(S)

Begin(c, o, d, p) ==
    /\ pc' = [pc EXCEPT ![c] = p]
    /\ op' = [op EXCEPT ![c] = o]
    /\ arg' = [arg EXCEPT ![c] = d]
    /\ idx' = [idx EXCEPT ![c] = 1]
    /\ last' = [last EXCEPT ![c] = IF o = "get" THEN @ ELSE NoRet]
    /\ UNCHANGED <<server, todo, remote, found, caught, err, ret, log>>

\* the method has returned or raised; the caller is free for its next call
Return(c) ==
    /\ pc[c] = "done"
    /\ pc' = [pc EXCEPT ![c] = "idle"]
    /\ op' = [op EXCEPT ![c] = "none"]
    /\ arg' = [arg EXCEPT ![c] = NoArg]
    /\ idx' = [idx EXCEPT ![c] = 0]
    /\ todo' = [todo EXCEPT ![c] = {}]
    /\ remote' = [remote EXCEPT ![c] = {}]
    /\ found' = [found EXCEPT ![c] = FALSE]
    /\ caught' = [caught EXCEPT ![c] = NoError]
    /\ err' = [err EXCEPT ![c] = NoError]
    /\ ret' = [ret EXCEPT ![c] = NoRet]
    /\ log' = [log EXCEPT ![c] = <<>>]
    /\ last' = [last EXCEPT ![c] =
                IF op[c] = "create" /\ err[c] = NoError
                THEN [name |-> arg[c].name, hier |-> SeqToSet(hierarchy_names(arg[c]))]
                ELSE NoRet]
    /\ UNCHANGED server

\* ------------------------------------------------------------------ create
AlreadyExists(c) ==
    [cls |-> "Exception", why |-> "Dimension already exists", at |-> Len(log[c]) + 1]

HasAttributes(h) == Len(h.element_attributes) > 0

\* the next pass >= from of create's for loop that calls hierarchies.update
NextWithAttributes(d, from) ==
    First({i \in from..Len(d.hierarchies) : HasAttributes(d.hierarchies[i])})

StartCreate(c) ==
    /\ pc[c] = "idle"
    /\ \E d \in Dimension : Begin(c, "create", d, "cr_probe")

\* create without the guard of lines 31-32: the probe is made, its answer ignored
CreateProbeNoCheck(c) ==
    /\ pc[c] = "cr_probe"
    /\ \E f \in Faults :
        LET n == arg[c].name
            e == IF f # "none" THEN Failure(f, c) ELSE NoError
        IN  /\ Append1(c, Call("EXISTS", n, n, Answer(e, SrvExists(n))))
            /\ IF e # NoError
               THEN Raise(c, e)
               ELSE Goto(c, "cr_post") /\ UNCHANGED err
    /\ UNCHANGED <<server, op, arg, idx, todo, remote, found, caught, ret, last>>

\* if self.exists(dimension.name): raise Exception("Dimension already exists")
\* (the probe is a request outside the try block: its failure ends create)
CreateProbe(c) ==
    /\ pc[c] = "cr_probe"
    /\ \E f \in Faults :
        LET n == arg[c].name
            e == IF f # "none" THEN Failure(f, c) ELSE NoError
        IN  /\ Append1(c, Call("EXISTS", n, n, Answer(e, SrvExists(n))))
            /\ IF e # NoError
               THEN Raise(c, e)
               ELSE IF SrvExists(n)
               THEN Raise(c, AlreadyExists(c))
               ELSE Goto(c, "cr_post") /\ UNCHANGED err
    /\ UNCHANGED <<server, op, arg, idx, todo, remote, found, caught, ret, last>>

\* what follows a request of the try block that ended with e
AfterTry(c, e, nxt) ==
    IF e = NoError
    THEN /\ IF nxt = 0 THEN Goto(c, "done") ELSE Goto(c, "cr_hier")
         /\ idx' = [idx EXCEPT ![c] = nxt]
         /\ UNCHANGED <<caught, err>>
    ELSE IF e.cls = "TM1pyException"
    THEN /\ Goto(c, "cr_undo")
         /\ caught' = [caught EXCEPT ![c] = e]
         /\ UNCHANGED <<idx, err>>
    ELSE /\ Raise(c, e)
         /\ UNCHANGED <<idx, caught>>

\* response = self._rest.POST(request, dimension.body)
CreatePost(c) ==
    /\ pc[c] = "cr_post"
    /\ \E f \in Faults :
        LET b == body(arg[c])
            e == IF f # "none" THEN Failure(f, c)
                 ELSE IF SrvExists(b.Name) THEN Refusal("conflict", c)
                 ELSE NoError
        IN  /\ Append1(c, Call("POST", b.Name, b.Name, Outcome(e)))
            /\ server' \in IF e = NoError THEN SrvPost(b) ELSE {server}
            /\ AfterTry(c, e, NextWithAttributes(arg[c], 1))
    /\ UNCHANGED <<op, arg, todo, remote, found, ret, last>>

\* for hierarchy in dimension: if len(...) > 0: self.hierarchies.update(hierarchy)
\* (the Hierarchy client addresses hierarchy.dimension_name)
CreateHier(c) ==
    /\ pc[c] = "cr_hier"
    /\ \E f \in Faults :
        LET h == arg[c].hierarchies[idx[c]]
            e == IF f # "none" THEN Failure(f, c)
                 ELSE IF ~SrvHierExists(h.dimension_name, h.name) THEN Refusal("notfound", c)
                 ELSE NoError
        IN  /\ Append1(c, Call("H_UPDATE", h.dimension_name, h.name, Outcome(e)))
            /\ AfterTry(c, e, NextWithAttributes(arg[c], idx[c] + 1))
    /\ UNCHANGED <<server, op, arg, todo, remote, found, ret, last>>

\* except TM1pyException as e: if self.exists(dimension.name): ... raise e
\* (a probe that raises inside the handler ends create with the probe's error)
CreateUndo(c) ==
    /\ pc[c] = "cr_undo"
    /\ \E f \in Faults :
        LET n == arg[c].name
            e == IF f # "none" THEN Failure(f, c) ELSE NoError
        IN  /\ Append1(c, Call("EXISTS", n, n, Answer(e, SrvExists(n))))
            /\ IF e # NoError
               THEN Raise(c, e)
               ELSE IF SrvExists(n)
               THEN Goto(c, "cr_undo_delete") /\ UNCHANGED err
               ELSE Raise(c, caught[c])
    /\ UNCHANGED <<server, op, arg, idx, todo, remote, found, caught, ret, last>>

\* self.delete(dimension.name); raise e
CreateUndoDelete(c) ==
    /\ pc[c] = "cr_undo_delete"
    /\ \E f \in Faults :
        LET e == IF f # "none" THEN Failure(f, c)
                 ELSE IF ~SrvExists(arg[c].name) THEN Refusal("notfound", c)
                 ELSE NoError
        IN  /\ Append1(c, Call("DELETE", arg[c].name, arg[c].name, Outcome(e)))
            /\ server' = IF e = NoError THEN SrvDelete(arg[c].name) ELSE server
            /\ Raise(c, IF e = NoError THEN caught[c] ELSE e)
    /\ UNCHANGED <<op, arg, idx, todo, remote, found, caught, ret, last>>

\* ------------------------------------------------------------------ get
\* get without $expand=Hierarchies($expand=*) in the request
GetResultNoExpand(n) == from_json(SrvGet(n, FALSE))

GetResult(n) == from_json(SrvGet(n, TRUE))

StartGet(c) ==
    /\ pc[c] = "idle"
    /\ \E n \in DimNames : Begin(c, "get", [name |-> n, hierarchies |-> <<>>], "get")

Get(c) ==
    /\ pc[c] = "get"
    /\ \E f \in Faults :
        LET n == arg[c].name
            e == IF f # "none" THEN Failure(f, c)
                 ELSE IF ~SrvExists(n) THEN Refusal("notfound", c)
                 ELSE NoError
        IN  /\ Append1(c, Call("GET", n, n, Outcome(e)))
            /\ ret' = [ret EXCEPT ![c] = IF e = NoError THEN GetResult(n) ELSE NoRet]
            /\ Raise(c, e)
    /\ UNCHANGED <<server, op, arg, idx, todo, remote, found, caught, last>>

\* ------------------------------------------------------------------ delete
StartDelete(c) ==
    /\ pc[c] = "idle"
    /\ \E n \in DimNames : Begin(c, "delete", [name |-> n, hierarchies |-> <<>>], "delete")

\* return self._rest.DELETE(request)
Delete(c) ==
    /\ pc[c] = "delete"
    /\ \E f \in Faults :
        LET n == arg[c].name
            e == IF f # "none" THEN Failure(f, c)
                 ELSE IF ~SrvExists(n) THEN Refusal("notfound", c)
                 ELSE NoError
        IN  /\ Append1(c, Call("DELETE", n, n, Outcome(e)))
            /\ server' = IF e = NoError THEN SrvDelete(n) ELSE server
            /\ Raise(c, e)
    /\ UNCHANGED <<op, arg, idx, todo, remote, found, caught, ret, last>>

\* ------------------------------------------------------------------ exists
StartExists(c) ==
    /\ pc[c] = "idle"
    /\ \E n \in DimNames : Begin(c, "exists", [name |-> n, hierarchies |-> <<>>], "exists")

\* return self._exists(request)
Exists(c) ==
    /\ pc[c] = "exists"
    /\ \E f \in Faults :
        LET n == arg[c].name
            e == IF f # "none" THEN Failure(f, c) ELSE NoError
        IN  /\ Append1(c, Call("EXISTS", n, n, Answer(e, SrvExists(n))))
            /\ ret' = [ret EXCEPT ![c] =
                    IF e = NoError THEN [exists |-> SrvExists(n)] ELSE NoRet]
            /\ Raise(c, e)
    /\ UNCHANGED <<server, op, arg, idx, todo, remote, found, caught, last>>

\* ------------------------------------------------------------------ get_all_names
\* GET /api/v1/Dimensions?$select=Name: the dimensions, in an order of the server's
SrvNames ==
    LET present == {n \in DimNames : SrvExists(n)}
    IN  {[value |-> [i \in 1..Len(q) |-> [Name |-> q[i]]]] :
            q \in {r \in [1..Cardinality(present) -> present] :
                        \A i, j \in 1..Cardinality(present) : i # j => r[i] # r[j]}}

StartGetAllNames(c) ==
    /\ pc[c] = "idle"
    /\ Begin(c, "get_all_names", NoArg, "names")

\* list(entry['Name'] for entry in response.json()['value'])
GetAllNames(c) ==
    /\ pc[c] = "names"
    /\ \E f \in Faults, j \in SrvNames :
        LET e == IF f # "none" THEN Failure(f, c) ELSE NoError
        IN  /\ Append1(c, Call("GET_NAMES", "", "", Outcome(e)))
            /\ ret' = [ret EXCEPT ![c] =
                    IF e = NoError
                    THEN [names |-> [i \in 1..Len(j.value) |-> j.value[i].Name]]
                    ELSE NoRet]
            /\ Raise(c, e)
    /\ UNCHANGED <<server, op, arg, idx, todo, remote, found, caught, last>>

\* ------------------------------------------------------------------ execute_mdx
Mdx == {"{TM1SUBSETALL([Region])}", "{[Region].[e1]}"}

\* the rows the server may answer a dimension MDX with
MdxRows == {<<>>, <<"e1">>, <<"e1", "e2">>, <<"e2", "e1">>}

AttributeCube(n) == <<"}ElementAttributes_", n>>

\* mdx_skeleton.format(mdx, dimension_name, dimension_name)
mdx_full(mdx, n) ==
    [select |-> mdx, columns |-> <<AttributeCube(n), "DefaultMember">>, from |-> AttributeCube(n)]

\* POST /api/v1/ExecuteMDX?$expand=Axes($filter=Ordinal eq 1;...): the rows axis
SrvExecuteMdx(rows) ==
    [Axes |-> <<[Tuples |-> [i \in 1..Len(rows) |->
                    [Members |-> <<[Element |-> [Name |-> rows[i]]]>>]]]>>]

StartExecuteMdx(c) ==
    /\ pc[c] = "idle"
    /\ \E n \in DimNames, m \in Mdx :
        Begin(c, "execute_mdx", [name |-> n, hierarchies |-> <<>>, mdx |-> m], "mdx")

\* [row_tuple['Members'][0]['Element']['Name'] for row_tuple in raw_dict['Axes'][0]['Tuples']]
ExecuteMdx(c) ==
    /\ pc[c] = "mdx"
    /\ \E f \in Faults, rows \in MdxRows :
        LET e == IF f # "none" THEN Failure(f, c) ELSE NoError
            raw_dict == SrvExecuteMdx(rows)
            tuples == raw_dict.Axes[1].Tuples
        IN  /\ Append1(c, Call("MDX", arg[c].name, mdx_full(arg[c].mdx, arg[c].name), Outcome(e)))
            /\ ret' = [ret EXCEPT ![c] =
                    IF e = NoError
                    THEN [elements |-> [i \in 1..Len(tuples) |-> tuples[i].Members[1].Element.Name]]
                    ELSE NoRet]
            /\ Raise(c, e)
    /\ UNCHANGED <<server, op, arg, idx, todo, remote, found, caught, last>>

\* ------------------------------------------------------------------ update
\* set(self.hierarchies.get_all_names(dimension.name)) - set(dimension.hierarchy_names)
ToBeRemoved(names, d) == names \ SeqToSet(hierarchy_names(d))

\* the Leaves test as a plain string comparison
IsLeavesExact(name) == name = Leaves

\* case_and_space_insensitive_equals(hierarchy.name, "Leaves")
IsLeaves(name) == case_and_space_insensitive_equals(name, Leaves)

\* the next pass >= from of update's for loop that is not skipped as Leaves
NextUpserted(d, from) ==
    First({i \in from..Len(d.hierarchies) : ~IsLeaves(d.hierarchies[i].name)})

StartUpdate(c) ==
    /\ pc[c] = "idle"
    /\ \E d \in Dimension : Begin(c, "update", d, "upd_names")

\* what follows the deletions: the first request of the second loop, or the return
AfterDeletions(c, left, from) ==
    LET nxt == NextUpserted(arg[c], from)
    IN  /\ IF left # {} THEN Goto(c, "upd_delete")
           ELSE IF nxt = 0 THEN Goto(c, "done")
           ELSE Goto(c, "upd_probe")
        /\ idx' = [idx EXCEPT ![c] = IF left # {} THEN idx[c] ELSE nxt]
        /\ UNCHANGED err

\* hierarchies_to_be_removed = set(get_all_names(...)) - set(dimension.hierarchy_names)
UpdateNames(c) ==
    /\ pc[c] = "upd_names"
    /\ \E f \in Faults :
        LET n == arg[c].name
            e == IF f # "none" THEN Failure(f, c)
                 ELSE IF ~SrvExists(n) THEN Refusal("notfound", c)
                 ELSE NoError
            names == server[n].hier
        IN  /\ Append1(c, Call("H_NAMES", n, n, Outcome(e)))
            /\ IF e = NoError
               THEN /\ remote' = [remote EXCEPT ![c] = names]
                    /\ todo' = [todo EXCEPT ![c] = ToBeRemoved(names, arg[c])]
                    /\ AfterDeletions(c, ToBeRemoved(names, arg[c]), 1)
               ELSE /\ Raise(c, e)
                    /\ UNCHANGED <<remote, todo, idx>>
    /\ UNCHANGED <<server, op, arg, found, caught, ret, last>>

\* for hierarchy_name in hierarchies_to_be_removed: self.hierarchies.delete(...)
\* (a Python set is iterated in no particular order)
UpdateDelete(c) ==
    /\ pc[c] = "upd_delete"
    /\ \E h \in todo[c], f \in Faults :
        LET n == arg[c].name
            e == IF f # "none" THEN Failure(f, c)
                 ELSE IF ~SrvHierExists(n, h) THEN Refusal("notfound", c)
                 ELSE NoError
        IN  /\ Append1(c, Call("H_DELETE", n, h, Outcome(e)))
            /\ IF e = NoError
               THEN /\ server' = SrvHierDelete(n, h)
                    /\ todo' = [todo EXCEPT ![c] = @ \ {h}]
                    /\ AfterDeletions(c, todo[c] \ {h}, 1)
               ELSE /\ Raise(c, e)
                    /\ UNCHANGED <<server, todo, idx>>
    /\ UNCHANGED <<op, arg, remote, found, caught, ret, last>>

\* if self.hierarchies.exists(dimension_name=hierarchy.dimension_name,
\*                            hierarchy_name=hierarchy.name)
\* (a probe that raises ends update)
UpdateProbe(c) ==
    /\ pc[c] = "upd_probe"
    /\ \E f \in Faults :
        LET h == arg[c].hierarchies[idx[c]]
            x == SrvHierExists(h.dimension_name, h.name)
            e == IF f # "none" THEN Failure(f, c) ELSE NoError
        IN  /\ Append1(c, Call("H_EXISTS", h.dimension_name, h.name, Answer(e, x)))
            /\ IF e # NoError
               THEN Raise(c, e) /\ UNCHANGED found
               ELSE /\ found' = [found EXCEPT ![c] = x]
                    /\ Goto(c, "upd_upsert")
                    /\ UNCHANGED err
    /\ UNCHANGED <<server, op, arg, idx, todo, remote, caught, ret, last>>

\* the upsert with the existence probe's answer ignored: always create
UpdateUpsertAlwaysCreate(c) ==
    /\ pc[c] = "upd_upsert"
    /\ \E f \in Faults :
        LET h == arg[c].hierarchies[idx[c]]
            n == h.dimension_name
            e == IF f # "none" THEN Failure(f, c)
                 ELSE IF SrvHierExists(n, h.name) THEN Refusal("conflict", c)
                 ELSE NoError
        IN  /\ Append1(c, Call("H_CREATE", n, h.name, Outcome(e)))
            /\ IF e = NoError
               THEN /\ server' \in SrvHierCreate(n, h.name)
                    /\ AfterDeletions(c, {}, idx[c] + 1)
               ELSE /\ Raise(c, e)
                    /\ UNCHANGED <<server, idx>>
    /\ UNCHANGED <<op, arg, todo, remote, found, caught, ret, last>>

\* self.hierarchies.update(hierarchy) if it exists, else self.hierarchies.create(hierarchy)
\* (both address hierarchy.dimension_name)
UpdateUpsert(c) ==
    /\ pc[c] = "upd_upsert"
    /\ \E f \in Faults :
        LET h == arg[c].hierarchies[idx[c]]
            n == h.dimension_name
            e == IF f # "none" THEN Failure(f, c)
                 ELSE IF found[c] /\ ~SrvHierExists(n, h.name) THEN Refusal("notfound", c)
                 ELSE IF ~found[c] /\ ~SrvExists(n) THEN Refusal("notfound", c)
                 ELSE IF ~found[c] /\ SrvHierExists(n, h.name) THEN Refusal("conflict", c)
                 ELSE NoError
        IN  /\ Append1(c, Call(IF found[c] THEN "H_UPDATE" ELSE "H_CREATE", n, h.name, Outcome(e)))
            /\ IF e = NoError
               THEN /\ server' \in IF found[c] THEN {server} ELSE SrvHierCreate(n, h.name)
                    /\ AfterDeletions(c, {}, idx[c] + 1)
               ELSE /\ Raise(c, e)
                    /\ UNCHANGED <<server, idx>>
    /\ UNCHANGED <<op, arg, todo, remote, found, caught, ret, last>>

\* ------------------------------------------------------------------ TI
\* "AttrInsert('{}', '', '{}', '{}');".format(dimension.name, ea.name, ea.attribute_type[0])
AttrInsert(d, ea) ==
    [fn |-> "AttrInsert", dim |-> d.name, attr |-> ea.name, type |-> ea.attribute_type[1]]

\* the statements list built for one hierarchy
Statements(d, h) ==
    [k \in 1..Len(h.element_attributes) |-> AttrInsert(d, h.element_attributes[k])]

StartTi(c) ==
    /\ pc[c] = "idle"
    /\ \E d \in Dimension :
        Begin(c, "ti", d, IF Len(d.hierarchies) = 0 THEN "done" ELSE "ti_exec")

\* execute_ti_code called after the loop: one call, with the last hierarchy's statements
TiExecAfterLoop(c) ==
    /\ pc[c] = "ti_exec"
    /\ \E f \in Faults :
        LET h == arg[c].hierarchies[Len(arg[c].hierarchies)]
            e == IF f # "none" THEN Failure(f, c) ELSE NoError
        IN  /\ Append1(c, Call("TI", arg[c].name, Statements(arg[c], h), Outcome(e)))
            /\ Raise(c, e)
    /\ UNCHANGED <<server, op, arg, idx, todo, remote, found, caught, ret, last>>

\* process_service.execute_ti_code(lines_prolog=statements), once per loop pass
TiExec(c) ==
    /\ pc[c] = "ti_exec"
    /\ \E f \in Faults :
        LET h == arg[c].hierarchies[idx[c]]
            e == IF f # "none" THEN Failure(f, c) ELSE NoError
        IN  /\ Append1(c, Call("TI", arg[c].name, Statements(arg[c], h), Outcome(e)))
            /\ IF e = NoError
               THEN /\ idx' = [idx EXCEPT ![c] = @ + 1]
                    /\ Goto(c, IF idx[c] = Len(arg[c].hierarchies) THEN "done" ELSE "ti_exec")
                    /\ UNCHANGED err
               ELSE /\ Raise(c, e)
                    /\ UNCHANGED idx
    /\ UNCHANGED <<server, op, arg, todo, remote, found, caught, ret, last>>

\* ------------------------------------------------------------------ specifications
\* One caller running the methods that address a dimension as a whole, one
\* call after the other, against a server that starts in any state.
Next ==
    \E c \in {1} :
        \/ StartCreate(c) \/ CreateProbe(c) \/ CreatePost(c) \/ CreateHier(c)
        \/ CreateUndo(c) \/ CreateUndoDelete(c)
        \/ StartGet(c) \/ Get(c)
        \/ StartDelete(c) \/ Delete(c)
        \/ StartExists(c) \/ Exists(c)
        \/ StartGetAllNames(c) \/ GetAllNames(c)
        \/ StartExecuteMdx(c) \/ ExecuteMdx(c)
        \/ Return(c)

Spec == Init /\ [][Next]_vars

\* One caller running update, one call after the other, against a server that
\* starts in any state (among them every state the methods of Next leave).
NextUpdate ==
    \E c \in {1} :
        \/ StartUpdate(c) \/ UpdateNames(c) \/ UpdateDelete(c)
        \/ UpdateProbe(c) \/ UpdateUpsert(c)
        \/ Return(c)

SpecUpdate == Init /\ [][NextUpdate]_vars

\* One caller running create_element_attributes_through_ti, which reaches the
\* Process client only.
NextTi == \E c \in {1} : StartTi(c) \/ TiExec(c) \/ Return(c)

SpecTi == InitEmpty /\ [][NextTi]_vars

\* create called with the dimension another caller is creating, if there is one
StartCreateSame(c) ==
    /\ pc[c] = "idle"
    /\ \E d \in Dimension :
        /\ \A o \in Callers \ {c} : pc[o] # "idle" => arg[o] = d
        /\ Begin(c, "create", d, "cr_probe")

\* Two callers, each running create once on the same dimension, their requests
\* interleaved.
NextConc ==
    \E c \in Callers :
        \/ StartCreateSame(c) \/ CreateProbe(c) \/ CreatePost(c) \/ CreateHier(c)
        \/ CreateUndo(c) \/ CreateUndoDelete(c)

SpecConc == InitEmpty /\ [][NextConc]_vars

\* ------------------------------------------------------------------ claims
Done(c, o) == pc[c] = "done" /\ op[c] = o

Failed(entry) == entry.out \in {"TM1pyException", "OtherError"}

Indices(c, kinds) == {i \in 1..Len(log[c]) : log[c][i].call \in kinds}

LeavesName(n) == Normalise(n) = <<"l", "e", "a", "v", "e", "s">>

\* C1: when a hierarchy update inside create fails, the dimension does not exist
\* on the server once create has raised.
C1_AbsentAfterFailedHierarchyUpdate ==
    \A c \in Callers :
        (Done(c, "create") /\ \E i \in Indices(c, {"H_UPDATE"}) : Failed(log[c][i]))
            => ~SrvExists(arg[c].name)

\* C2 as stated: create on a dimension that exists always raises "Dimension
\* already exists" right after the existence probe: no other request is issued,
\* the server is unchanged.
C2_CreateOnExistingOnlyProbes ==
    [][\A c \in Callers :
        (pc[c] = "cr_probe" /\ pc'[c] # "cr_probe" /\ SrvExists(arg[c].name))
            => /\ pc'[c] = "done"
               /\ err'[c].cls = "Exception"
               /\ err'[c].why = "Dimension already exists"
               /\ Len(log'[c]) = 1
               /\ log'[c][1].call = "EXISTS"
               /\ server' = server]_vars

\* C2 amended: create on a dimension that exists ends with its first request, the
\* existence probe, and leaves the server unchanged: it raises "Dimension already
\* exists" when the probe answers, and the probe's own error when the probe fails.
C2_CreateOnExistingFails ==
    [][\A c \in Callers :
        (pc[c] = "cr_probe" /\ pc'[c] # "cr_probe" /\ SrvExists(arg[c].name))
            => /\ pc'[c] = "done"
               /\ Len(log'[c]) = 1
               /\ log'[c][1].call = "EXISTS"
               /\ server' = server
               /\ IF Failed(log'[c][1])
                  THEN err'[c] = [cls |-> log'[c][1].out, why |-> "fault", at |-> 1]
                  ELSE /\ log'[c][1].out = "true"
                       /\ err'[c].cls = "Exception"
                       /\ err'[c].why = "Dimension already exists"]_vars

C2_Witness ==
    /\ Done(1, "create")
    /\ err[1].why = "Dimension already exists"
    /\ server[arg[1].name].hier # {}

\* C3: update deletes exactly the server hierarchies that no hierarchy of the
\* given dimension matches under case/space-insensitive comparison.
C3_DeletesExactlyTheUnmatched ==
    \A c \in Callers :
        (Done(c, "update") /\ err[c] = NoError)
            => {log[c][i].arg : i \in {j \in Indices(c, {"H_DELETE"}) : ~Failed(log[c][j])}}
               = {h \in remote[c] :
                    \A i \in 1..Len(arg[c].hierarchies) :
                        Normalise(h) # Normalise(arg[c].hierarchies[i].name)}

\* C4: with [Region, Leaves] on the server and [Region, Continent] given (both
\* hierarchies belonging to the dimension Region itself), update
\* deletes no hierarchy (so never the server's Leaves hierarchy), issues no call
\* for Leaves, updates Region and creates Continent.
C4_LeavesRetained ==
    \A c \in Callers :
        (/\ op[c] = "update"
         /\ arg[c].name = "Region"
         /\ remote[c] = {Region, Leaves}
         /\ hierarchy_names(arg[c]) = <<Region, Continent>>
         /\ \A i \in 1..2 : arg[c].hierarchies[i].dimension_name = "Region")
            => /\ Indices(c, {"H_DELETE"}) = {}
               /\ \A i \in Indices(c, {"H_DELETE", "H_EXISTS", "H_UPDATE", "H_CREATE"}) :
                    ~LeavesName(log[c][i].arg)
               /\ (pc[c] = "done" /\ err[c] = NoError)
                    => /\ \E i \in Indices(c, {"H_UPDATE"}) : log[c][i].arg = Region
                       /\ \E i \in Indices(c, {"H_CREATE"}) : log[c][i].arg = Continent

\* C5: update issues no hierarchy create and no hierarchy update for a name that
\* equals "Leaves" up to case and spaces.
C5_NoUpsertOfLeaves ==
    \A c \in Callers :
        op[c] = "update"
            => \A i \in Indices(c, {"H_UPDATE", "H_CREATE"}) : ~LeavesName(log[c][i].arg)

C5_Witness ==
    /\ Done(1, "update") /\ err[1] = NoError
    /\ \E i \in 1..Len(arg[1].hierarchies) : arg[1].hierarchies[i].name = leaves_spaced
    /\ Indices(1, {"H_UPDATE", "H_CREATE"}) # {}

C7_OneCompensatingDelete ==
    \A c \in Callers :
        Done(c, "create")
            => \A i \in Indices(c, {"H_UPDATE"}) :
                Failed(log[c][i])
                    => /\ Cardinality(Indices(c, {"DELETE"})) = 1
                       /\ \A j \in Indices(c, {"DELETE"}) :
                            /\ ~Failed(log[c][j]) => (err[c].at = i /\ err[c].cls = log[c][i].out)
                            /\ Failed(log[c][j]) => (err[c].at = j /\ err[c].cls = log[c][j].out)

\* the statements of all hierarchies of d from the i-th on, in iteration order
RECURSIVE AllStatements(_, _)
AllStatements(d, i) ==
    IF i > Len(d.hierarchies) THEN <<>>
    ELSE [k \in 1..Len(d.hierarchies[i].element_attributes) |->
            [fn |-> "AttrInsert", dim |-> d.name,
             attr |-> d.hierarchies[i].element_attributes[k].name,
             type |-> Head(d.hierarchies[i].element_attributes[k].attribute_type)]]
         \o AllStatements(d, i + 1)

\* C8 as stated: one invocation, for a dimension that has hierarchies, makes
\* exactly one execute_ti_code call, holding the statements of all hierarchies.
C8_SingleBatch ==
    \A c \in Callers :
        (Done(c, "ti") /\ err[c] = NoError /\ Len(arg[c].hierarchies) > 0)
            => /\ Len(log[c]) = 1
               /\ log[c][1].arg = AllStatements(arg[c], 1)

\* C8 amended: execute_ti_code is called once per hierarchy, in iteration order,
\* the i-th call holding one statement per element attribute of the i-th
\* hierarchy; a failing call is the last one, and a run without error has made
\* as many calls as the dimension has hierarchies.
C8_OneBatchPerHierarchy ==
    \A c \in Callers :
        op[c] = "ti"
            => /\ Len(log[c]) <= Len(arg[c].hierarchies)
               /\ \A i \in 1..Len(log[c]) :
                    LET eas == arg[c].hierarchies[i].element_attributes
                    IN  /\ log[c][i].call = "TI"
                        /\ log[c][i].arg =
                            [k \in 1..Len(eas) |->
                                [fn |-> "AttrInsert", dim |-> arg[c].name,
                                 attr |-> eas[k].name, type |-> Head(eas[k].attribute_type)]]
                        /\ Failed(log[c][i]) => (i = Len(log[c]) /\ pc[c] = "done")
               /\ (pc[c] = "done" /\ err[c] = NoError)
                    => Len(log[c]) = Len(arg[c].hierarchies)

C8_Witness ==
    /\ Done(1, "ti") /\ err[1] = NoError
    /\ Len(log[1]) = 2
    /\ Len(log[1][1].arg) > 0
    /\ log[1][1].arg = log[1][2].arg

NotLeavesHierarchy(h) == ~LeavesName(h.name)
IsProbe(entry) == entry.call = "H_EXISTS"

\* C9: in update every hierarchy delete precedes every hierarchy exists, update
\* or create call; the existence probes follow the dimension's non-Leaves
\* hierarchies in order, each addressed to the dimension the hierarchy names as
\* its own and followed by an update of that hierarchy there if it answered true
\* and by a create if it answered false; a failing call is the last call of the
\* run, and no hierarchy is deleted twice.
C9_DeletesThenUpsertsInOrder ==
    \A c \in Callers :
        op[c] = "update"
            => LET L == log[c]
                   wanted == SelectSeq(arg[c].hierarchies, NotLeavesHierarchy)
                   probes == SelectSeq(L, IsProbe)
               IN  /\ \A i \in Indices(c, {"H_DELETE"}) :
                        \A j \in Indices(c, {"H_EXISTS", "H_UPDATE", "H_CREATE"}) : i < j
                   /\ \A i, j \in Indices(c, {"H_DELETE"}) : i # j => L[i].arg # L[j].arg
                   /\ \A i \in Indices(c, {"H_DELETE"}) : L[i].dim = arg[c].name
                   /\ \A i \in 1..Len(L) :
                        Failed(L[i]) => (i = Len(L) /\ pc[c] = "done" /\ err[c].at = i)
                   /\ Len(probes) <= Len(wanted)
                   /\ \A k \in 1..Len(probes) :
                        /\ probes[k].arg = wanted[k].name
                        /\ probes[k].dim = wanted[k].dimension_name
                   /\ \A i \in Indices(c, {"H_EXISTS"}) :
                        IF Failed(L[i]) THEN i = Len(L)
                        ELSE IF i = Len(L) THEN pc[c] = "upd_upsert"
                        ELSE /\ L[i + 1].call = IF L[i].out = "true" THEN "H_UPDATE" ELSE "H_CREATE"
                             /\ L[i + 1].arg = L[i].arg
                             /\ L[i + 1].dim = L[i].dim
                   /\ \A i \in Indices(c, {"H_UPDATE", "H_CREATE"}) :
                        i > 1 /\ L[i - 1].call = "H_EXISTS"
                   /\ (pc[c] = "done" /\ err[c] = NoError) => Len(probes) = Len(wanted)

C9_Witness ==
    /\ Done(1, "update") /\ err[1] = NoError
    /\ Indices(1, {"H_DELETE"}) # {}
    /\ Indices(1, {"H_UPDATE"}) # {}
    /\ Indices(1, {"H_CREATE"}) # {}

\* C10: when both concurrent create calls have finished and one of them returned
\* without error, the dimension exists on the server.
C10_SuccessfulCreateSurvives ==
    (\A c \in Callers : Done(c, "create"))
        => \A c \in Callers : err[c] = NoError => SrvExists(arg[c].name)

====
